---- MODULE Spec2Model ----
(***************************************************************************)
(* The stages of src/src/FileUtils.ts (globRead, readFolder, substitute,   *)
(* envsub, getFileFromFolder, unzipFile, gunzipFile) as one state machine. *)
(* One behaviour is one execution of one stage: Init chooses the stage,    *)
(* its configuration and the data its reader, file system or environment   *)
(* will hand to it.                                                        *)
(*                                                                         *)
(* The channel runtime (Stream / Writer of @rdfc/js-runner), the file      *)
(* system, zlib and adm-zip are the environment.  Their steps are the      *)
(* actions that invoke a callback of the stage or resolve a promise the    *)
(* stage awaits.  A step of the stage is the code between two awaits: it   *)
(* runs without interleaving, as on the single JavaScript thread.          *)
(*                                                                         *)
(* Environment:                                                            *)
(*   - the reader may invoke the data handler for the next record while    *)
(*     handlers of earlier records are suspended in an await;              *)
(*   - the upstream end of the input is signalled at most once, after the  *)
(*     records the upstream sends; every reader.end() the stage calls lets *)
(*     the reader run its "end" handlers once more, and the reader invokes *)
(*     no data handler after the stage has called reader.end();            *)
(*   - the consumer closes the output at most once; every writer.end() the *)
(*     stage calls lets the writer run its "end" listeners once more;      *)
(*   - writer.push(x) suspends until the record is accepted.               *)
(***************************************************************************)
EXTENDS Integers, Sequences, FiniteSets, TLC

\* Bounds of the model.
MaxRecords == 2
MaxEndCalls == 3

VARIABLES
    kind,             \* the stage that runs
    cfg,              \* its configuration (the function's parameters)
    env,              \* process.env, in enumeration order: <<key, value>> pairs
    input,            \* what the environment holds: records to deliver, files matched, entries read
    writerClosed,     \* the stage's local `writerClosed`
    listening,        \* writer.on("end", ...) has been registered
    upstreamEnded,    \* the upstream end of the input has been signalled
    consumerClosed,   \* the consumer has closed the output
    readerEndPending, \* reader.end() calls whose "end" handlers have not run yet
    writerEndPending, \* writer.end() calls whose "end" listeners have not run yet
    hs,               \* the data handler invocations, one per delivered record
    ppc,              \* the producer's position (globRead, readFolder)
    idx,              \* the producer's loop index: files already taken by the for loop
    jsfiles,          \* globRead: the matched list / readFolder: fileNames
    files,            \* globRead: the contents read before returning
    log               \* history: the calls the stage made, in order

vars == <<kind, cfg, env, input, writerClosed, listening, upstreamEnded, consumerClosed,
          readerEndPending, writerEndPending, hs, ppc, idx, jsfiles, files, log>>

Producers == {"globRead", "readFolder"}
Transforms == {"substitute", "envsub", "getFileFromFolder", "unzipFile", "gunzipFile"}
Kinds == Producers \cup Transforms

--------------------------------------------------------------------------
\* Text and bytes are sequences of one-character strings.  "x" stands for a
\* byte that is not valid UTF-8.

\* Buffer.toString() / readFile(..., "utf8"): an invalid byte decodes to U+FFFD ("?").
Utf8Decode(bytes) == [i \in 1..Len(bytes) |-> IF bytes[i] = "x" THEN "?" ELSE bytes[i]]

\* readFile(x, binary ? {} : { encoding: "utf8" })
ReadAs(bytes, binary) == IF binary THEN bytes ELSE Utf8Decode(bytes)

\* The replacement text of String.prototype.replaceAll for one match of a string
\* pattern: $$, $&, $` and $' are expanded, everything else is literal.
RECURSIVE GetSubstitution(_, _, _, _)
GetSubstitution(str, pos, m, repl) ==
    IF repl = <<>> THEN <<>>
    ELSE IF Head(repl) = "$" /\ Len(repl) >= 2 /\ repl[2] \in {"$", "&", "`", "'"}
    THEN (CASE repl[2] = "$" -> <<"$">>
            [] repl[2] = "&" -> SubSeq(str, pos, pos + m - 1)
            [] repl[2] = "`" -> SubSeq(str, 1, pos - 1)
            [] repl[2] = "'" -> SubSeq(str, pos + m, Len(str)))
         \o GetSubstitution(str, pos, m, Tail(Tail(repl)))
    ELSE <<Head(repl)>> \o GetSubstitution(str, pos, m, Tail(repl))

\* x.replaceAll(pat, repl) for a string pattern, scanning from position `from`.
RECURSIVE ReplaceFrom(_, _, _, _)
ReplaceFrom(str, pat, repl, from) ==
    IF from > Len(str) - Len(pat) + 1
    THEN (IF from > Len(str) THEN <<>> ELSE SubSeq(str, from, Len(str)))
    ELSE IF SubSeq(str, from, from + Len(pat) - 1) = pat
    THEN GetSubstitution(str, from, Len(pat), repl)
         \o (IF pat = <<>>
             THEN (IF from <= Len(str) THEN <<str[from]>> ELSE <<>>)
                  \o ReplaceFrom(str, pat, repl, from + 1)
             ELSE ReplaceFrom(str, pat, repl, from + Len(pat)))
    ELSE <<str[from]>> \o ReplaceFrom(str, pat, repl, from + 1)

ReplaceAll(str, pat, repl) == ReplaceFrom(str, pat, repl, 1)

\* The placeholder `${key}`.
Placeholder(key) == <<"$", "{", key, "}">>

\* Object.keys(env).forEach(key => { if (v) x = x.replaceAll(`${key}`, v) })
RECURSIVE EnvSubst(_, _)
EnvSubst(x, e) ==
    IF e = <<>> THEN x
    ELSE EnvSubst(IF e[1][2] # <<>> THEN ReplaceAll(x, Placeholder(e[1][1]), e[1][2]) ELSE x,
                  Tail(e))

--------------------------------------------------------------------------
\* The data the environment can hold.  An item is a record
\*   [ok, bytes, entries]: ok = the file exists / the buffer parses / the entry is a file.

Item(ok, bytes, entries) == [ok |-> ok, bytes |-> bytes, entries |-> entries]
Entry(ok, bytes) == [ok |-> ok, bytes |-> bytes]

Blobs == {<<"a">>, <<"b", "x">>}

Items(k) ==
    CASE k = "globRead" -> {Item(TRUE, b, <<>>) : b \in Blobs}
      [] k = "readFolder" -> {Item(TRUE, <<"b", "x">>, <<>>), Item(FALSE, <<>>, <<>>)}
      [] k = "substitute" -> {Item(TRUE, <<"b", "a">>, <<>>)}
      [] k = "envsub" -> {Item(TRUE, <<"a">> \o Placeholder("A") \o Placeholder("B")
                                            \o Placeholder("U"), <<>>)}
      [] k = "getFileFromFolder" -> {Item(TRUE, <<"b", "x">>, <<>>), Item(FALSE, <<>>, <<>>)}
      [] k = "gunzipFile" -> {Item(TRUE, <<"b", "x">>, <<>>), Item(FALSE, <<>>, <<>>)}
      [] k = "unzipFile" -> {Item(FALSE, <<>>, <<>>),
                             Item(TRUE, <<>>, <<Entry(TRUE, <<"a">>), Entry(TRUE, <<"b", "x">>)>>),
                             Item(TRUE, <<>>, <<Entry(TRUE, <<"a">>), Entry(FALSE, <<>>)>>)}

SeqsUpTo(S, n) == UNION {[1..m -> S] : m \in 0..n}

\* The configurations: the parameters of each function.
Cfg(closeOnEnd, binary, regexp, source, replace, outputAsBuffer) ==
    [closeOnEnd |-> closeOnEnd, binary |-> binary, regexp |-> regexp,
     source |-> source, replace |-> replace, outputAsBuffer |-> outputAsBuffer]

Cfgs(k) ==
    CASE k = "globRead" -> {Cfg(c, b, FALSE, <<>>, <<>>, FALSE) : c \in BOOLEAN, b \in BOOLEAN}
      [] k = "substitute" -> {Cfg(TRUE, FALSE, r, <<"a">>, <<"c">>, FALSE) : r \in BOOLEAN}
      [] k \in {"unzipFile", "gunzipFile"} -> {Cfg(TRUE, FALSE, FALSE, <<>>, <<>>, b) : b \in BOOLEAN}
      [] OTHER -> {Cfg(TRUE, FALSE, FALSE, <<>>, <<>>, FALSE)}

\* The environment tables: process.env as the sequence of its <<key, value>>
\* pairs in the order Object.keys enumerates them.  B may be defined and empty;
\* the value of A may hold the placeholder of B.
Envs(k) ==
    IF k = "envsub"
    THEN {<< <<"A", <<"v">> >>, <<"B", <<>> >> >>,
          << <<"A", Placeholder("B")>>, <<"B", <<"w">> >> >>,
          << <<"B", <<"w">> >>, <<"A", Placeholder("B")>> >>}
    ELSE {<<>>}

--------------------------------------------------------------------------
\* History entries.
Ev(op, rec, val) == [op |-> op, rec |-> rec, val |-> val]
Call(op) == Ev(op, 0, <<>>)

Handler(pc, k) == [pc |-> pc, k |-> k]

Init ==
    /\ kind \in Kinds
    /\ cfg \in Cfgs(kind)
    /\ env \in Envs(kind)
    /\ input \in SeqsUpTo(Items(kind), MaxRecords)
    /\ writerClosed = FALSE
    /\ listening = (kind \in Transforms)
    /\ upstreamEnded = FALSE
    /\ consumerClosed = FALSE
    /\ readerEndPending = 0
    /\ writerEndPending = 0
    /\ hs = <<>>
    /\ ppc = IF kind \in Producers THEN "init" ELSE "none"
    /\ idx = 0
    /\ jsfiles = <<>>
    /\ files = <<>>
    /\ log = <<>>

--------------------------------------------------------------------------
\* History helpers.
Positions(op) == {p \in 1..Len(log) : log[p].op = op}
NumCalls(op) == Cardinality(Positions(op))
PushesOf(i) == {p \in Positions("push") : log[p].rec = i}

--------------------------------------------------------------------------
\* The stages with an input: substitute, envsub, getFileFromFolder, unzipFile,
\* gunzipFile.  A handler invocation is at "read" (awaiting readFile or gunzip),
\* at "push" (awaiting writer.push), "done" (returned) or "failed" (rejected).

Step(h, out) == [h |-> h, out |-> out]
Returned(i, out) == Step(Handler("done", 0), out)
Rejected(i) == Step(Handler("failed", 0), <<Ev("throw", i, <<>>)>>)
Pushing(i, k, val) == Step(Handler("push", k), <<Ev("push", i, val)>>)

\* substitute: reader.data(async (x) => { await writer.push(x.replaceAll(reg, replace)) }).
\* With regexp = true, reg is new RegExp(source), which has no g flag: replaceAll throws
\* a TypeError.
substituteData(i) ==
    IF cfg.regexp
    THEN Rejected(i)
    ELSE Pushing(i, 0, ReplaceAll(input[i].bytes, cfg.source, cfg.replace))

\* envsub: the keys of process.env are substituted one after the other, then the push.
envsubData(i) == Pushing(i, 0, EnvSubst(input[i].bytes, env))

\* getFileFromFolder: const file = await readFile(filePath, "utf8")
getFileFromFolderData(i) == Step(Handler("read", 0), <<>>)

\* getFileFromFolder after the read: a missing file rejects the handler.
getFileFromFolderRead(i) ==
    IF input[i].ok THEN Pushing(i, 0, Utf8Decode(input[i].bytes)) ELSE Rejected(i)

\* unzipFile: the for loop over adm.getEntries() from entry k on, inside try/catch:
\* entry.getData() throws on an entry that cannot be decompressed.
unzipFileLoop(i, k) ==
    IF k > Len(input[i].entries) THEN Returned(i, <<>>)
    ELSE IF ~input[i].entries[k].ok THEN Returned(i, <<Ev("error", i, <<>>)>>)
    ELSE Pushing(i, k, ReadAs(input[i].entries[k].bytes, cfg.outputAsBuffer))

\* unzipFile: new AdmZip(data) throws on a buffer that is no archive.
unzipFileData(i) ==
    IF ~input[i].ok THEN Returned(i, <<Ev("error", i, <<>>)>>) ELSE unzipFileLoop(i, 1)

\* gunzipFile: const buffer = await gunzip(data)
gunzipFileData(i) == Step(Handler("read", 0), <<>>)

\* gunzipFile after gunzip: the push, or the catch.
gunzipFileRead(i) ==
    IF input[i].ok
    THEN Pushing(i, 0, ReadAs(input[i].bytes, cfg.outputAsBuffer))
    ELSE Returned(i, <<Ev("error", i, <<>>)>>)

\* The data handler up to its first await.
DataHandler(i) ==
    CASE kind = "substitute" -> substituteData(i)
      [] kind = "envsub" -> envsubData(i)
      [] kind = "getFileFromFolder" -> getFileFromFolderData(i)
      [] kind = "unzipFile" -> unzipFileData(i)
      [] kind = "gunzipFile" -> gunzipFileData(i)

\* The handler after its await of readFile / gunzip.
AfterRead(i) ==
    IF kind = "getFileFromFolder" THEN getFileFromFolderRead(i) ELSE gunzipFileRead(i)

\* The handler after its await of writer.push.
AfterPush(i) ==
    IF kind = "unzipFile" THEN unzipFileLoop(i, hs[i].k + 1) ELSE Returned(i, <<>>)

\* Mutant of WriterEndListener: the listener forgets writerClosed = true.
WriterEndListener_NoFlag ==
    /\ UNCHANGED writerClosed
    /\ IF kind \in Transforms
       THEN /\ log' = log \o <<Call("closed"), Call("rend")>>
            /\ readerEndPending' = readerEndPending + 1
       ELSE /\ log' = Append(log, Call("closed"))
            /\ UNCHANGED readerEndPending

\* writer.on("end", async () => { writerClosed = true; await reader.end(); }) and, in
\* globRead and readFolder, writer.on("end", () => { writerClosed = true; }).
WriterEndListener ==
    /\ writerClosed' = TRUE
    /\ IF kind \in Transforms
       THEN /\ log' = log \o <<Call("closed"), Call("rend")>>
            /\ readerEndPending' = readerEndPending + 1
       ELSE /\ log' = Append(log, Call("closed"))
            /\ UNCHANGED readerEndPending

\* Mutant of ReaderEndHandler: writer.end() is called without testing writerClosed.
ReaderEndHandler_IgnoresClosed ==
    /\ log' = log \o <<Call("inputEnd"), Call("wend")>>
    /\ writerEndPending' = writerEndPending + 1

\* reader.on("end", async () => { if (!writerClosed) { await writer.end(); } })
ReaderEndHandler ==
    IF writerClosed
    THEN /\ log' = Append(log, Call("inputEnd"))
         /\ UNCHANGED writerEndPending
    ELSE /\ log' = log \o <<Call("inputEnd"), Call("wend")>>
         /\ writerEndPending' = writerEndPending + 1

\* The reader invokes the data handler for the next record (not after the upstream
\* signalled the end, nor after the stage ended the reader).
DeliverData ==
    /\ kind \in Transforms
    /\ ~upstreamEnded
    /\ NumCalls("rend") = 0
    /\ Len(hs) < Len(input)
    /\ LET i == Len(hs) + 1
           s == DataHandler(i)
       IN /\ hs' = Append(hs, s.h)
          /\ log' = log \o s.out
    /\ UNCHANGED <<kind, cfg, env, input, writerClosed, listening, upstreamEnded,
                   consumerClosed, readerEndPending, writerEndPending, ppc, idx, jsfiles, files>>

\* readFile or gunzip settles for handler i.
ReadSettles(i) ==
    /\ i \in 1..Len(hs)
    /\ hs[i].pc = "read"
    /\ LET s == AfterRead(i)
       IN /\ hs' = [hs EXCEPT ![i] = s.h]
          /\ log' = log \o s.out
    /\ UNCHANGED <<kind, cfg, env, input, writerClosed, listening, upstreamEnded,
                   consumerClosed, readerEndPending, writerEndPending, ppc, idx, jsfiles, files>>

\* The writer accepts the record handler i is pushing.
PushAccepted(i) ==
    /\ i \in 1..Len(hs)
    /\ hs[i].pc = "push"
    /\ LET s == AfterPush(i)
       IN /\ hs' = [hs EXCEPT ![i] = s.h]
          /\ log' = log \o s.out
    /\ UNCHANGED <<kind, cfg, env, input, writerClosed, listening, upstreamEnded,
                   consumerClosed, readerEndPending, writerEndPending, ppc, idx, jsfiles, files>>

\* The upstream signals the end of the input.
UpstreamEnd ==
    /\ kind \in Transforms
    /\ ~upstreamEnded
    /\ upstreamEnded' = TRUE
    /\ ReaderEndHandler
    /\ UNCHANGED <<kind, cfg, env, input, writerClosed, listening, consumerClosed,
                   readerEndPending, hs, ppc, idx, jsfiles, files>>

\* The reader runs its "end" handlers because the stage called reader.end().
ReaderEndEcho ==
    /\ readerEndPending > 0
    /\ NumCalls("wend") < MaxEndCalls
    /\ readerEndPending' = readerEndPending - 1
    /\ ReaderEndHandler
    /\ UNCHANGED <<kind, cfg, env, input, writerClosed, listening, upstreamEnded,
                   consumerClosed, hs, ppc, idx, jsfiles, files>>

\* The consumer closes the output: the writer runs its "end" listeners.
ConsumerClose ==
    /\ listening
    /\ ~consumerClosed
    /\ consumerClosed' = TRUE
    /\ WriterEndListener
    /\ UNCHANGED <<kind, cfg, env, input, listening, upstreamEnded, writerEndPending,
                   hs, ppc, idx, jsfiles, files>>

\* The writer runs its "end" listeners because the stage called writer.end().
WriterEndEcho ==
    /\ writerEndPending > 0
    /\ NumCalls("rend") < MaxEndCalls
    /\ writerEndPending' = writerEndPending - 1
    /\ WriterEndListener
    /\ UNCHANGED <<kind, cfg, env, input, listening, upstreamEnded, consumerClosed,
                   hs, ppc, idx, jsfiles, files>>

--------------------------------------------------------------------------
\* The producers: globRead and readFolder.  ppc is "init" (the function is
\* running up to its return), "returned" (the start action is returned and not
\* yet invoked), "push" (awaiting writer.push), "wait" (awaiting the pacing
\* timer), "sleep" (awaiting sleep(pause)), "read" (awaiting readFile),
\* "ending" (awaiting writer.end()), "done" (the start action returned) or
\* "rejected" (the function or the start action threw).

\* Mutant of globRead: on an empty match the output is ended before returning.
globRead_EndsEarly ==
    /\ kind = "globRead"
    /\ ppc = "init"
    /\ jsfiles' = input
    /\ files' = [i \in 1..Len(input) |-> ReadAs(input[i].bytes, cfg.binary)]
    /\ log' = log \o <<Call("glob")>>
                  \o (IF Len(input) = 0 THEN <<Call("warn"), Call("wend")>> ELSE <<>>)
                  \o [i \in 1..Len(input) |-> Ev("readFile", i, <<>>)]
                  \o <<Call("return")>>
    /\ writerEndPending' = writerEndPending + (IF Len(input) = 0 THEN 1 ELSE 0)
    /\ listening' = TRUE
    /\ ppc' = "returned"
    /\ UNCHANGED <<kind, cfg, env, input, writerClosed, upstreamEnded, consumerClosed,
                   readerEndPending, hs, idx>>

\* Mutant of globRead: no warning on an empty match.
globRead_NoWarn ==
    /\ kind = "globRead"
    /\ ppc = "init"
    /\ jsfiles' = input
    /\ files' = [i \in 1..Len(input) |-> ReadAs(input[i].bytes, cfg.binary)]
    /\ log' = log \o <<Call("glob")>>
                  \o [i \in 1..Len(input) |-> Ev("readFile", i, <<>>)]
                  \o <<Call("return")>>
    /\ listening' = TRUE
    /\ ppc' = "returned"
    /\ UNCHANGED <<kind, cfg, env, input, writerClosed, upstreamEnded, consumerClosed,
                   readerEndPending, writerEndPending, hs, idx>>

\* globRead up to its return: glob(globPattern), the warning on an empty match,
\* Promise.all of the reads, writer.on("end", ...).
globRead ==
    /\ kind = "globRead"
    /\ ppc = "init"
    /\ jsfiles' = input
    /\ files' = [i \in 1..Len(input) |-> ReadAs(input[i].bytes, cfg.binary)]
    /\ log' = log \o <<Call("glob")>>
                  \o (IF Len(input) = 0 THEN <<Call("warn")>> ELSE <<>>)
                  \o [i \in 1..Len(input) |-> Ev("readFile", i, <<>>)]
                  \o <<Call("return")>>
    /\ listening' = TRUE
    /\ ppc' = "returned"
    /\ UNCHANGED <<kind, cfg, env, input, writerClosed, upstreamEnded, consumerClosed,
                   readerEndPending, writerEndPending, hs, idx>>

\* Mutant of globReadLoop: every iteration pushes the first file.
globReadLoop_WrongFile(l) ==
    IF idx < Len(files) /\ ~writerClosed
    THEN /\ idx' = idx + 1
         /\ log' = Append(l, Ev("push", idx + 1, files[1]))
         /\ ppc' = "push"
         /\ UNCHANGED writerEndPending
    ELSE IF cfg.closeOnEnd
    THEN /\ log' = Append(l, Call("wend"))
         /\ writerEndPending' = writerEndPending + 1
         /\ ppc' = "ending"
         /\ UNCHANGED idx
    ELSE /\ ppc' = "done"
         /\ log' = l /\ UNCHANGED <<idx, writerEndPending>>

\* Mutant of globReadLoop: the loop does not test writerClosed.
globReadLoop_NoCloseCheck(l) ==
    IF idx < Len(files)
    THEN /\ idx' = idx + 1
         /\ log' = Append(l, Ev("push", idx + 1, files[idx + 1]))
         /\ ppc' = "push"
         /\ UNCHANGED writerEndPending
    ELSE IF cfg.closeOnEnd
    THEN /\ log' = Append(l, Call("wend"))
         /\ writerEndPending' = writerEndPending + 1
         /\ ppc' = "ending"
         /\ UNCHANGED idx
    ELSE /\ ppc' = "done"
         /\ log' = l /\ UNCHANGED <<idx, writerEndPending>>

\* Mutant of globReadLoop: writer.end() is called whatever closeOnEnd is.
globReadLoop_AlwaysEnds(l) ==
    IF idx < Len(files) /\ ~writerClosed
    THEN /\ idx' = idx + 1
         /\ log' = Append(l, Ev("push", idx + 1, files[idx + 1]))
         /\ ppc' = "push"
         /\ UNCHANGED writerEndPending
    ELSE /\ log' = Append(l, Call("wend"))
         /\ writerEndPending' = writerEndPending + 1
         /\ ppc' = "ending"
         /\ UNCHANGED idx

\* The body of the start action of globRead from the top of the for loop, with l
\* the history so far:
\*   for (const file of files) { if (writerClosed) break; await writer.push(file); ... }
\*   if (closeOnEnd) { await writer.end(); }
globReadLoop(l) ==
    IF idx < Len(files) /\ ~writerClosed
    THEN /\ idx' = idx + 1
         /\ log' = Append(l, Ev("push", idx + 1, files[idx + 1]))
         /\ ppc' = "push"
         /\ UNCHANGED writerEndPending
    ELSE IF cfg.closeOnEnd
    THEN /\ log' = Append(l, Call("wend"))
         /\ writerEndPending' = writerEndPending + 1
         /\ ppc' = "ending"
         /\ UNCHANGED idx
    ELSE /\ ppc' = "done"
         /\ log' = l /\ UNCHANGED <<idx, writerEndPending>>

\* readFolder up to its return: access(normalizedPath) throws on a folder that is
\* not accessible; readdir(..., { recursive: true }) lists files and sub-directories.
readFolder(accessible) ==
    /\ kind = "readFolder"
    /\ ppc = "init"
    /\ IF accessible
       THEN /\ jsfiles' = input
            /\ log' = Append(log, Call("return"))
            /\ listening' = TRUE
            /\ ppc' = "returned"
       ELSE /\ log' = Append(log, Call("throw"))
            /\ ppc' = "rejected"
            /\ UNCHANGED <<jsfiles, listening>>
    /\ UNCHANGED <<kind, cfg, env, input, writerClosed, upstreamEnded, consumerClosed,
                   readerEndPending, writerEndPending, hs, idx, files>>

\* readFile(path.join(normalizedPath, fileName)) is started.
readFolderRead ==
    /\ log' = Append(log, Ev("readFile", idx, <<>>))
    /\ ppc' = "read"

\* readFolder's maxMemory parameter, in GiB (a value whose threshold in bytes
\* fits the model checker's integers), and the samples memoryUsage().heapUsed
\* can return: at the threshold and above it.
maxMemory == 1
GiB == 1024 * 1024 * 1024
HeapSamples == {maxMemory * GiB, maxMemory * GiB + 1}

\* Mutant of readFolderLoop: the threshold test is dropped, the file is read at once.
readFolderLoop_NoPause(l, heapUsed) ==
    IF idx < Len(jsfiles) /\ ~writerClosed
    THEN /\ idx' = idx + 1
         /\ log' = l \o <<Ev("sample", idx + 1, <<heapUsed>>), Ev("readFile", idx + 1, <<>>)>>
         /\ ppc' = "read"
         /\ UNCHANGED writerEndPending
    ELSE /\ log' = Append(l, Call("wend"))
         /\ writerEndPending' = writerEndPending + 1
         /\ ppc' = "ending"
         /\ UNCHANGED idx

\* Mutant of readFolderLoop: on a closed writer the start action returns at once.
readFolderLoop_ReturnsOnClose(l, heapUsed) ==
    IF idx < Len(jsfiles) /\ ~writerClosed
    THEN /\ idx' = idx + 1
         /\ IF heapUsed > maxMemory * GiB
            THEN /\ log' = l \o <<Ev("sample", idx + 1, <<heapUsed>>), Ev("sleep", idx + 1, <<>>)>>
                 /\ ppc' = "sleep"
            ELSE /\ log' = l \o <<Ev("sample", idx + 1, <<heapUsed>>), Ev("readFile", idx + 1, <<>>)>>
                 /\ ppc' = "read"
         /\ UNCHANGED writerEndPending
    ELSE IF writerClosed
    THEN /\ ppc' = "done"
         /\ log' = l
         /\ UNCHANGED <<idx, writerEndPending>>
    ELSE /\ log' = Append(l, Call("wend"))
         /\ writerEndPending' = writerEndPending + 1
         /\ ppc' = "ending"
         /\ UNCHANGED idx

\* The body of the start action of readFolder from the top of the for loop, with l
\* the history so far and heapUsed the value of memoryUsage().heapUsed:
\*   if (writerClosed) break;
\*   if (memoryUsage().heapUsed > maxMemory * 1024 * 1024 * 1024) { await sleep(pause); }
\*   await writer.push((await readFile(...)).toString());
\* and, after the loop, await writer.end().
readFolderLoop(l, heapUsed) ==
    IF idx < Len(jsfiles) /\ ~writerClosed
    THEN /\ idx' = idx + 1
         /\ IF heapUsed > maxMemory * GiB
            THEN /\ log' = l \o <<Ev("sample", idx + 1, <<heapUsed>>), Ev("sleep", idx + 1, <<>>)>>
                 /\ ppc' = "sleep"
            ELSE /\ log' = l \o <<Ev("sample", idx + 1, <<heapUsed>>), Ev("readFile", idx + 1, <<>>)>>
                 /\ ppc' = "read"
         /\ UNCHANGED writerEndPending
    ELSE /\ log' = Append(l, Call("wend"))
         /\ writerEndPending' = writerEndPending + 1
         /\ ppc' = "ending"
         /\ UNCHANGED idx

\* From the top of the loop of the stage's start action.
ProducerLoop(l) ==
    IF kind = "globRead"
    THEN globReadLoop(l)
    ELSE \E heapUsed \in HeapSamples : readFolderLoop(l, heapUsed)

\* The host invokes the start action.
Start ==
    /\ ppc = "returned"
    /\ ProducerLoop(Append(log, Call("start")))
    /\ UNCHANGED <<kind, cfg, env, input, writerClosed, listening, upstreamEnded,
                   consumerClosed, readerEndPending, hs, jsfiles, files>>

\* The writer accepts the record the producer is pushing.  globRead then awaits
\* setTimeout(res, wait); readFolder goes to the next file.
ProducerPushAccepted ==
    /\ ppc = "push"
    /\ IF kind = "globRead"
       THEN ppc' = "wait" /\ UNCHANGED <<idx, log, writerEndPending>>
       ELSE ProducerLoop(log)
    /\ UNCHANGED <<kind, cfg, env, input, writerClosed, listening, upstreamEnded,
                   consumerClosed, readerEndPending, hs, jsfiles, files>>

\* A timer fires: the pacing delay of globRead, or sleep(pause) of readFolder.
TimerFires ==
    /\ \/ ppc = "wait" /\ globReadLoop(log)
       \/ ppc = "sleep" /\ readFolderRead /\ UNCHANGED <<idx, writerEndPending>>
    /\ UNCHANGED <<kind, cfg, env, input, writerClosed, listening, upstreamEnded,
                   consumerClosed, readerEndPending, hs, jsfiles, files>>

\* readFolder: readFile settles.  A sub-directory rejects it (EISDIR) and the start
\* action rejects; a file is pushed as text.
ProducerReadSettles ==
    /\ ppc = "read"
    /\ IF jsfiles[idx].ok
       THEN /\ log' = Append(log, Ev("push", idx, Utf8Decode(jsfiles[idx].bytes)))
            /\ ppc' = "push"
       ELSE /\ log' = Append(log, Ev("throw", idx, <<>>))
            /\ ppc' = "rejected"
    /\ UNCHANGED <<kind, cfg, env, input, writerClosed, listening, upstreamEnded,
                   consumerClosed, readerEndPending, writerEndPending, hs, idx, jsfiles, files>>

\* writer.end() of the start action resolves: the start action returns.
ProducerEndResolves ==
    /\ ppc = "ending"
    /\ ppc' = "done"
    /\ UNCHANGED <<kind, cfg, env, input, writerClosed, listening, upstreamEnded,
                   consumerClosed, readerEndPending, writerEndPending, hs, idx, jsfiles,
                   files, log>>

Next ==
    \/ globRead
    \/ \E accessible \in BOOLEAN : readFolder(accessible)
    \/ Start
    \/ ProducerPushAccepted
    \/ TimerFires
    \/ ProducerReadSettles
    \/ ProducerEndResolves
    \/ DeliverData
    \/ \E i \in 1..MaxRecords : ReadSettles(i)
    \/ \E i \in 1..MaxRecords : PushAccepted(i)
    \/ UpstreamEnd
    \/ ReaderEndEcho
    \/ ConsumerClose
    \/ WriterEndEcho

Spec == Init /\ [][Next]_vars

--------------------------------------------------------------------------
\* Orderings in the history.
AllBefore(opA, opB) == \A p \in Positions(opA), q \in Positions(opB) : p < q
NoneBefore(op, q) == \A p \in Positions(op) : p > q
Suspended == {i \in 1..Len(hs) : hs[i].pc \in {"read", "push"}}

\* C1: in every stage, once the listener for the end/close event of the output
\* has run, the stage starts no further writer.push on that output.
C1_NoPushAfterClose == AllBefore("push", "closed")

\* The consumer closed the output before the input signalled its end: the first
\* run of the writer's listener precedes every run of the reader's "end" handler.
ClosedBeforeInputEnd ==
    /\ kind \in Transforms
    /\ Positions("closed") # {}
    /\ \E q \in Positions("closed") : \A p \in Positions("inputEnd") : q < p

\* A handler that rejected did so because of its record or the configuration
\* (a missing file, a RegExp without the g flag), not because of the closure.
FailuresAreOfTheRecord ==
    \A i \in 1..Len(hs) : hs[i].pc = "failed" => (cfg.regexp \/ ~input[i].ok)

InputEndedWhileOpen ==
    \E q \in Positions("inputEnd") : NoneBefore("closed", q)

\* C3: a stage with an input calls writer.end() at most once, and exactly once
\* when the input signals end while the output has not been closed, for every
\* delivery order of the end events, the echo of its own writer.end() included.
C3_WriterEndedOnce ==
    kind \in Transforms =>
        /\ NumCalls("wend") <= 1
        /\ InputEndedWhileOpen => NumCalls("wend") = 1

\* C3 witness: the stage's own writer.end() ran the writer's listener, the stage
\* called reader.end(), the input's end was delivered again, and the consumer
\* closed the output too; writer.end() was called once.
C3_Witness ==
    /\ kind \in Transforms
    /\ NumCalls("wend") = 1
    /\ NumCalls("inputEnd") = 3
    /\ NumCalls("closed") = 2
    /\ readerEndPending = 0
    /\ writerEndPending = 0

\* C4: a stage with an input calls writer.end() only after every push for every
\* record it has received has completed: at the call no handler is suspended
\* before or inside a writer.push, and no push starts after the call.
C4_EndAfterAllPushes ==
    /\ [][(kind \in Transforms /\ NumCalls("wend")' > NumCalls("wend")) => Suspended = {}]_vars
    /\ [](kind \in Transforms => AllBefore("push", "wend"))

\* Record i cannot be parsed or decompressed: the buffer is no archive or no gzip
\* stream, or one of the archive's entries cannot be decompressed.
Malformed(i) ==
    ~input[i].ok \/ \E k \in 1..Len(input[i].entries) : ~input[i].entries[k].ok

\* The number of records a well-formed input record expands to.
Expansion(i) == IF kind = "unzipFile" THEN Len(input[i].entries) ELSE 1

\* C5: in unzipFile and gunzipFile a record that cannot be parsed or decompressed
\* is isolated: no output record is pushed for it, its handler does not fail, no
\* writer.end() or reader.end() is called because of it (none is called while no
\* end event was delivered), and a well-formed record is still expanded in full.
C5_MalformedIsolated ==
    kind \in {"unzipFile", "gunzipFile"} =>
        /\ \A i \in 1..Len(hs) :
              /\ hs[i].pc # "failed"
              /\ Malformed(i) => PushesOf(i) = {}
              /\ (~Malformed(i) /\ hs[i].pc = "done") => Cardinality(PushesOf(i)) = Expansion(i)
        /\ (Positions("inputEnd") = {} /\ Positions("closed") = {}) =>
              (NumCalls("wend") = 0 /\ NumCalls("rend") = 0)

\* C6: no stage reorders records: the pushes for a record delivered earlier all
\* precede the pushes for a record delivered later (so the entries of one archive
\* are contiguous), and the entries of one archive are pushed in entry order.
C6_NoReorder ==
    /\ \A p, q \in Positions("push") : p < q => log[p].rec <= log[q].rec
    /\ kind = "unzipFile" =>
          \A i \in 1..Len(hs) : \A p \in PushesOf(i) :
              LET k == Cardinality({r \in PushesOf(i) : r <= p})
              IN log[p].val = ReadAs(input[i].entries[k].bytes, cfg.outputAsBuffer)

\* The start action was invoked before position p of the history.
StartedBefore(p) == \E s \in Positions("start") : s < p
ReadsOf(i) == {p \in Positions("readFile") : log[p].rec = i}

\* C7: globRead pushes nothing and does not end its output before the start
\* action it returns is invoked; the pattern is expanded once and every matched
\* file is read once, before globRead returns.
C7_NothingBeforeStart ==
    kind = "globRead" =>
        /\ \A p \in Positions("push") \cup Positions("wend") : StartedBefore(p)
        /\ NumCalls("glob") <= 1
        /\ \A i \in 1..Len(input) : Cardinality(ReadsOf(i)) <= 1
        /\ \A r \in Positions("return") :
              /\ \E g \in Positions("glob") : g < r
              /\ \A i \in 1..Len(input) : \E p \in ReadsOf(i) : p < r
              /\ \A p \in Positions("readFile") \cup Positions("glob") : p < r

\* C7 witness: the start action of globRead ran to its end over two files.
C7_Witness ==
    /\ kind = "globRead"
    /\ ppc = "done"
    /\ NumCalls("push") = 2
    /\ NumCalls("wend") = 1

\* The records pushed, in order.
IsPush(e) == e.op = "push"
Pushed == SelectSeq(log, IsPush)

\* What the i-th matched file reads as.
Matched(i) == ReadAs(jsfiles[i].bytes, cfg.binary)

\* The first n records pushed are the first n matched files, in order, unchanged.
PushedArePrefix ==
    /\ Len(Pushed) <= Len(jsfiles)
    /\ \A i \in 1..Len(Pushed) : Pushed[i].rec = i /\ Pushed[i].val = Matched(i)

\* C8 as stated: after the start action of globRead has run to completion, as
\* many records were pushed as files were matched, each file's content once,
\* unchanged and in the order of the matched list.
C8_AllFilesPushed ==
    (kind = "globRead" /\ ppc = "done") => (PushedArePrefix /\ Len(Pushed) = Len(jsfiles))

\* The writer's listener did not run before the push of the last matched file started.
NotClosedEarly ==
    \A q \in Positions("closed") : Cardinality({p \in Positions("push") : p < q}) = Len(jsfiles)

\* C8 amended: the records pushed by globRead are at all times the contents of
\* the first matched files, in the order of the matched list, each once and
\* unchanged; after the start action has run to completion they are all the
\* matched files, unless the output was closed before the last push started.
C8_AllFilesPushedUnlessClosed ==
    kind = "globRead" =>
        /\ PushedArePrefix
        /\ (ppc = "done" /\ NotClosedEarly) => Len(Pushed) = Len(jsfiles)

\* C8 witness: two files of different content, both pushed, the start action done.
C8_Witness ==
    /\ kind = "globRead"
    /\ ppc = "done"
    /\ Len(jsfiles) = 2
    /\ jsfiles[1] # jsfiles[2]
    /\ Len(Pushed) = 2
    /\ NotClosedEarly

\* C9: in globRead, once the consumer has closed the output (the listener has
\* run), the start action pushes none of the remaining files, whether the close
\* came while a push was pending or during the pacing delay.
C9_StopsOnClose == kind = "globRead" => AllBefore("push", "closed")

\* C9 witness: the output was closed after the first of two files was pushed and
\* the start action has returned without pushing the second.
C9_Witness ==
    /\ kind = "globRead"
    /\ ppc = "done"
    /\ Len(files) = 2
    /\ idx = 1
    /\ Positions("closed") # {}

\* globRead has run to completion on a pattern that matches no file.
DoneOnEmptyMatch == kind = "globRead" /\ ppc = "done" /\ Len(jsfiles) = 0

\* C10 as stated: when the pattern matches no file, globRead pushes no record,
\* reports a warning and no failure, and calls writer.end().
C10_EmptyMatchEnds ==
    DoneOnEmptyMatch =>
        /\ NumCalls("push") = 0
        /\ NumCalls("warn") = 1
        /\ NumCalls("throw") = 0
        /\ NumCalls("wend") = 1

\* C10 amended: when the pattern matches no file, globRead pushes no record,
\* reports a warning (before it returns) and no failure, and its start action
\* calls writer.end() once if closeOnEnd is true and not at all if it is false.
C10_EmptyMatchEndsIfCloseOnEnd ==
    /\ (kind = "globRead" /\ ppc # "init" /\ Len(jsfiles) = 0) =>
          (NumCalls("push") = 0 /\ NumCalls("warn") = 1 /\ NumCalls("throw") = 0)
    /\ DoneOnEmptyMatch => NumCalls("wend") = (IF cfg.closeOnEnd THEN 1 ELSE 0)

\* C10 witness: no file matched, closeOnEnd is true and the start action has ended the output.
C10_Witness == DoneOnEmptyMatch /\ cfg.closeOnEnd /\ NumCalls("wend") = 1

\* C11: closeOnEnd alone decides whether globRead signals end: with closeOnEnd
\* false the start action never calls writer.end(); with closeOnEnd true it
\* calls it exactly once (it has, when the start action awaits it or has
\* returned), and only when no push of the start action is pending.
C11_CloseOnEndDecides ==
    /\ [](kind = "globRead" =>
            /\ NumCalls("wend") <= 1
            /\ ~cfg.closeOnEnd => NumCalls("wend") = 0
            /\ (cfg.closeOnEnd /\ ppc \in {"ending", "done"}) => NumCalls("wend") = 1
            /\ ppc = "done" => (cfg.closeOnEnd <=> NumCalls("wend") = 1)
            /\ AllBefore("push", "wend"))
    /\ [][(kind = "globRead" /\ NumCalls("wend")' > NumCalls("wend")) => ppc # "push"]_vars

\* C11 witness: closeOnEnd is false, two files were pushed, the start action
\* returned and the output was not ended.
C11_Witness ==
    /\ kind = "globRead"
    /\ ~cfg.closeOnEnd
    /\ ppc = "done"
    /\ NumCalls("push") = 2
    /\ NumCalls("wend") = 0

--------------------------------------------------------------------------
\* readFolder.

\* The start action of readFolder was invoked and is over: it returned or threw.
StartActionOver ==
    kind = "readFolder" /\ Positions("start") # {} /\ ppc \in {"done", "rejected"}

\* No run of the writer's listener precedes position q of the history.
OpenAt(q) == NoneBefore("closed", q)

\* C12: once the start action of readFolder is invoked it calls writer.end()
\* in the end, exactly once, and (the output not being closed) only after every
\* enumerated entry was processed, whatever the directory holds, entries whose
\* read fails included.
C12_ReadFolderAlwaysEnds ==
    kind = "readFolder" =>
        /\ NumCalls("wend") <= 1
        /\ StartActionOver => NumCalls("wend") = 1
        /\ \A w \in Positions("wend") : OpenAt(w) => idx = Len(jsfiles)

\* The enumerated entries that are regular files.
RegularFiles == {i \in 1..Len(jsfiles) : jsfiles[i].ok}

\* C13: for a directory tree with N regular files, readFolder pushes exactly N
\* records, one per regular file with its text content, pushes no record for a
\* sub-directory entry and does not fail on it.
C13_OneRecordPerFile ==
    kind = "readFolder" =>
        /\ ppc = "rejected" => Positions("start") = {}
        /\ \A p \in Positions("push") :
              /\ log[p].rec \in RegularFiles
              /\ log[p].val = Utf8Decode(jsfiles[log[p].rec].bytes)
        /\ \A i \in RegularFiles : Cardinality(PushesOf(i)) <= 1
        /\ (StartActionOver /\ \A w \in Positions("wend") : OpenAt(w)) =>
              NumCalls("push") = Cardinality(RegularFiles)

\* The places in the history of the events of entry i.
EventsOf(op, i) == {p \in Positions(op) : log[p].rec = i}

\* The sample at position s exceeds the configured threshold.
High(s) == log[s].val[1] > maxMemory * GiB

\* C17: in readFolder memory usage is sampled before each file is processed;
\* when the sample exceeds the threshold a pause takes place between the sample
\* and the read and push of that file, and when it does not, the file is read
\* and pushed without a pause.
C17_PauseIffSampleHigh ==
    kind = "readFolder" =>
        \A i \in 1..idx :
            /\ Cardinality(EventsOf("sample", i)) = 1
            /\ \A s \in EventsOf("sample", i) :
                  /\ \A p \in EventsOf("readFile", i) \cup PushesOf(i) : s < p
                  /\ High(s) =>
                        /\ Cardinality(EventsOf("sleep", i)) = 1
                        /\ \A t \in EventsOf("sleep", i) :
                              /\ s < t
                              /\ \A p \in EventsOf("readFile", i) \cup PushesOf(i) : t < p
                  /\ ~High(s) => EventsOf("sleep", i) = {}

\* C17 witness: two files were pushed, one after a pause and one without.
C17_Witness ==
    /\ kind = "readFolder"
    /\ NumCalls("push") = 2
    /\ NumCalls("sleep") = 1
    /\ ppc = "done"

\* C18: the memory-pressure rule of readFolder cannot stall the producer: one
\* sample and at most one pause per file; with memory usage above the threshold
\* at every sample and an output that is not closed, the start action pushes
\* every enumerated file and reaches writer.end() after at most one pause per file.
C18_PressureCannotStall ==
    kind = "readFolder" =>
        /\ \A i \in 1..idx :
              /\ Cardinality(EventsOf("sample", i)) = 1
              /\ Cardinality(EventsOf("sleep", i)) <= 1
        /\ (/\ StartActionOver
            /\ \A s \in Positions("sample") : High(s)
            /\ \A w \in Positions("wend") : OpenAt(w)) =>
              /\ ppc = "done"
              /\ NumCalls("wend") = 1
              /\ NumCalls("push") = Cardinality(RegularFiles)
              /\ RegularFiles = 1..Len(jsfiles)
              /\ NumCalls("sleep") = Len(jsfiles)

\* The loop of the start action was left with entries remaining.
LeftEarly == ppc \in {"ending", "done"} /\ idx < Len(jsfiles)

\* C19: a producer that leaves its loop because the output was closed still
\* ends the output: in readFolder, and in globRead with closeOnEnd true, a loop
\* left early was left after the writer's listener ran, writer.end() is then
\* called exactly once, and the start action never returns without that call.
C19_EndsAfterClose ==
    (kind \in Producers /\ (kind = "globRead" => cfg.closeOnEnd)) =>
        /\ ppc \in {"ending", "done"} => NumCalls("wend") = 1
        /\ LeftEarly => \E c \in Positions("closed"), w \in Positions("wend") : c < w

\* C19 witness: the output was closed after the first of two entries was pushed;
\* the start action called writer.end() once and returned.
C19_Witness ==
    /\ kind \in Producers
    /\ ppc = "done"
    /\ idx = 1
    /\ Len(jsfiles) = 2
    /\ NumCalls("push") = 1
    /\ NumCalls("wend") = 1

--------------------------------------------------------------------------
\* getFileFromFolder and substitute.

\* C14: getFileFromFolder is fail-stop on a fetch error: the handler of a record
\* whose file is missing pushes nothing and fails (the failure is not caught),
\* and no record received after the failing one is fetched and pushed.
C14_FetchErrorStopsStage ==
    kind = "getFileFromFolder" =>
        /\ \A i \in 1..Len(hs) :
              ~input[i].ok => (PushesOf(i) = {} /\ hs[i].pc \in {"read", "failed"})
        /\ \A i, j \in 1..Len(hs) :
              (i < j /\ hs[i].pc = "failed") => PushesOf(j) = {}

\* The text has no occurrence of the pattern.
NoOccurrence(str, pat) ==
    \A k \in 1..(Len(str) - Len(pat) + 1) : SubSeq(str, k, k + Len(pat) - 1) # pat

\* C16: substitute preserves cardinality in both of its modes: with regexp false
\* and with regexp true the handler of a record does not fail, and once it is
\* over it has pushed exactly one record, in which the occurrences of the
\* source are replaced by the replacement.
C16_OneOutputInBothModes ==
    kind = "substitute" =>
        \A i \in 1..Len(hs) :
            /\ hs[i].pc # "failed"
            /\ Cardinality(PushesOf(i)) <= 1
            /\ hs[i].pc = "done" => Cardinality(PushesOf(i)) = 1
            /\ \A p \in PushesOf(i) :
                  /\ log[p].val = ReplaceAll(input[i].bytes, cfg.source, cfg.replace)
                  /\ NoOccurrence(log[p].val, cfg.source)

--------------------------------------------------------------------------
\* envsub.

\* The variable is defined in the environment table.
Defined(e, key) == \E n \in 1..Len(e) : e[n][1] = key
ValueOf(e, key) == e[CHOOSE n \in 1..Len(e) : e[n][1] = key][2]

\* The text in which every placeholder of a defined variable is replaced by the
\* value of the variable and everything else is left as it is (one pass over the
\* text, from position `from` on).
RECURSIVE Interpolated(_, _, _)
Interpolated(x, e, from) ==
    IF from > Len(x) THEN <<>>
    ELSE IF /\ from + 3 <= Len(x)
            /\ SubSeq(x, from, from + 3) = Placeholder(x[from + 2])
            /\ Defined(e, x[from + 2])
    THEN ValueOf(e, x[from + 2]) \o Interpolated(x, e, from + 4)
    ELSE <<x[from]>> \o Interpolated(x, e, from + 1)

\* C15: envsub pushes exactly one output per input record, in which every
\* placeholder of a variable defined in the environment (whatever its value, the
\* empty string included) is replaced by that value and every placeholder of an
\* undefined variable is left unchanged.
C15_DefinedPlaceholdersReplaced ==
    kind = "envsub" =>
        \A i \in 1..Len(hs) :
            /\ hs[i].pc # "failed"
            /\ Cardinality(PushesOf(i)) = 1
            /\ \A p \in PushesOf(i) : log[p].val = Interpolated(input[i].bytes, env, 1)

\* The orders in which the variables of a table can be enumerated.
Orders(e) ==
    {[n \in 1..Len(e) |-> e[f[n]]] :
        f \in {g \in [1..Len(e) -> 1..Len(e)] : \A a, b \in 1..Len(e) : g[a] = g[b] => a = b}}

\* C20: envsub is deterministic in the contents of the environment: the text
\* pushed for a record is the same for every order in which the variables of the
\* table are enumerated, also when the value of one variable holds the
\* placeholder of another defined variable.
C20_OrderIndependent ==
    kind = "envsub" =>
        \A p \in Positions("push") : \A e \in Orders(env) :
            log[p].val = EnvSubst(input[log[p].rec].bytes, e)

====
